---- MODULE Spec2Model ----
(***************************************************************************)
(* Model of the multi-source aggregation of predictstocks-api:             *)
(*   PredictionService      (app/prediction_service.py)                    *)
(*   SocialMediaService     (app/social_media/social_media_service.py)     *)
(*   AIService              (app/ai/ai_service.py)                         *)
(* One PredictionService instance with its SocialMediaService is modelled. *)
(* The gateways behind the services (historical prices, Reddit, OpenAI)    *)
(* are the environment: what a call on them returns or raises is an input  *)
(* of the step that makes the call.  The Twitter call is decided by the    *)
(* source itself: the call sites pass more positional arguments than the   *)
(* TwitterClient methods accept.                                           *)
(***************************************************************************)
EXTENDS Integers, Sequences, FiniteSets, TLC

(* ------------------------------ bounds --------------------------------- *)
\* the wall clock runs from 1 to MaxTime ticks of SecondsPerTick seconds
MaxTime == 5
SecondsPerTick == 90

(* -------------------------- program constants -------------------------- *)
\* "time.time() - self.global_start_time > 180"
GlobalTimeout == 180
\* positional parameters TwitterClient.get_posts_for_ticker accepts
\* (ticker, limit), and TwitterClient.get_influencer_posts (ticker, influencers)
TwitterClientMaxArgs == 2
\* positional arguments the SocialMediaService call sites pass
\* (ticker, limit | influencers, self.global_start_time)
TwitterCallArgs == 3
\* confidence of _generate_prediction, in hundredths
ConfidencePerSource == 20
ConfidenceCap == 100

(* ------------------------------ inputs --------------------------------- *)
\* self.global_start_time = None
None == 0
\* numbers of price bars a historical fetch can deliver
BarCounts == {0, 2, 10, 20}
\* numbers of posts a social fetch can deliver
PostCounts == {0, 5, 15}
\* texts of exceptions, as the set of signatures they carry
Messages == {{}, {"429"}, {"rate limit"}, {"403"}, {"403", "429"}}
\* the text of the TypeError of a call with too many positional arguments
TypeErrorMsg == {}

Returned(n) == [kind |-> "returned", n |-> n, msg |-> {}]
Raised(m) == [kind |-> "raised", n |-> 0, msg |-> m]

\* what HistoricalDataService.get_historical_data can do at its call site
HistoricalResults == {Returned(n) : n \in BarCounts} \cup {Raised({})}
\* what RedditClient.get_posts_for_ticker / get_high_quality_posts can do:
\* an unconfigured client returns [] at once
RedditResults(configured) ==
    IF configured
    THEN {Returned(n) : n \in PostCounts} \cup {Raised(m) : m \in Messages}
    ELSE {Returned(0)}
\* what the body of a TwitterClient method returns when it runs
TwitterBodyResults == {Returned(n) : n \in PostCounts}

\* SentimentAnalyzer.valid_sentiments / valid_impacts, the pairs tried
AIResponses == { <<"positive", "moderate increase", "high">>,
                 <<"very negative", "significant decrease", "medium">>,
                 <<"positive", "minimal change", "low">>,
                 <<"neutral", "minimal change", "low">> }
\* what OpenAIClient.analyze_text followed by parse_ai_response can do
OpenAIResults ==
    {[kind |-> "returned", sentiment |-> r[1], impact |-> r[2], confidence |-> r[3]] : r \in AIResponses}
    \cup {[kind |-> "raised", sentiment |-> "", impact |-> "", confidence |-> ""]}

(* ------------------------------ helpers -------------------------------- *)
\* "rate limit" in str(e).lower() or "429" in str(e)
TwitterTrips(msg) == "rate limit" \in msg \/ "429" \in msg

\* variant: any Reddit failure trips the breaker
RedditTrips_Any(msg) == TRUE

\* variant: the Reddit handler looks for the rate-limit signature instead
RedditTrips_RateLimit(msg) == "rate limit" \in msg \/ "429" \in msg

\* "403" in str(e)
RedditTrips(msg) == "403" \in msg

\* self.global_start_time and time.time() - self.global_start_time > 180
DeadlineElapsed(gst, t) == gst # None /\ (t - gst) * SecondsPerTick > GlobalTimeout

\* binding of a call on a TwitterClient method: too many positional
\* arguments raise TypeError before the body runs
TwitterClientCall(nargs, body) ==
    IF nargs > TwitterClientMaxArgs THEN Raised(TypeErrorMsg) ELSE body

\* the failure kinds a message is classified as
KindsOf(msg) == (IF "429" \in msg \/ "rate limit" \in msg THEN {"rate_limit"} ELSE {})
                \cup (IF "403" \in msg THEN {"forbidden"} ELSE {})

(* --------------------- SocialMediaService methods ---------------------- *)
\* Each method is a function of the flags, the deadline, the clock and the
\* gateway result; it yields the new flag, the posts returned, whether the
\* client was called and how the attempt ended.
Attempt(flag, posts, called, out, msg) ==
    [flag |-> flag, posts |-> posts, called |-> called, out |-> out, msg |-> msg]

\* variant: the deadline check of lines 108-111 is missing
get_twitter_posts_only_NoDeadline(limited, gst, t, body) ==
    IF limited THEN Attempt(TRUE, 0, FALSE, "skipped_breaker", {})
    ELSE LET r == TwitterClientCall(TwitterCallArgs, body) IN
         IF r.kind = "returned" THEN Attempt(FALSE, r.n, TRUE, "returned", {})
         ELSE Attempt(TwitterTrips(r.msg), 0, TRUE, "raised", r.msg)

get_twitter_posts_only(limited, gst, t, body) ==
    IF limited THEN Attempt(TRUE, 0, FALSE, "skipped_breaker", {})
    ELSE IF DeadlineElapsed(gst, t) THEN Attempt(TRUE, 0, FALSE, "skipped_deadline", {})
    ELSE LET r == TwitterClientCall(TwitterCallArgs, body) IN
         IF r.kind = "returned" THEN Attempt(FALSE, r.n, TRUE, "returned", {})
         ELSE Attempt(TwitterTrips(r.msg), 0, TRUE, "raised", r.msg)

\* variant: the breaker check of lines 131-133 is missing
get_reddit_posts_only_NoBreaker(blocked, r) ==
    IF r.kind = "returned" THEN Attempt(blocked, r.n, TRUE, "returned", {})
    ELSE Attempt(blocked \/ RedditTrips(r.msg), 0, TRUE, "raised", r.msg)

get_reddit_posts_only(blocked, r) ==
    IF blocked THEN Attempt(TRUE, 0, FALSE, "skipped_breaker", {})
    ELSE IF r.kind = "returned" THEN Attempt(FALSE, r.n, TRUE, "returned", {})
    ELSE Attempt(RedditTrips(r.msg), 0, TRUE, "raised", r.msg)

\* get_posts_for_ticker, lines 50-69: the Twitter collection
twitter_collection(limited, gst, t, body) ==
    IF ~limited
    THEN IF DeadlineElapsed(gst, t)
         THEN Attempt(TRUE, 0, FALSE, "skipped_deadline", {})
         ELSE LET r == TwitterClientCall(TwitterCallArgs, body) IN
              IF r.kind = "returned" THEN Attempt(limited, r.n, TRUE, "returned", {})
              ELSE Attempt(TwitterTrips(r.msg), 0, TRUE, "raised", r.msg)
    ELSE Attempt(limited, 0, FALSE, "skipped_breaker", {})

\* get_posts_for_ticker, lines 71-87: the Reddit collection
reddit_collection(include_reddit, blocked, r) ==
    IF include_reddit /\ ~blocked
    THEN IF r.kind = "returned" THEN Attempt(blocked, r.n, TRUE, "returned", {})
         ELSE Attempt(RedditTrips(r.msg), 0, TRUE, "raised", r.msg)
    ELSE IF blocked THEN Attempt(blocked, 0, FALSE, "skipped_breaker", {})
    ELSE Attempt(blocked, 0, FALSE, "skipped_option", {})

\* get_influencer_posts with the default configuration, lines 166-181
twitter_influencers(configured, limited, gst, t, body) ==
    IF configured /\ ~limited
    THEN IF DeadlineElapsed(gst, t)
         THEN Attempt(TRUE, 0, FALSE, "skipped_deadline", {})
         ELSE LET r == TwitterClientCall(TwitterCallArgs, body) IN
              IF r.kind = "returned" THEN Attempt(limited, r.n, TRUE, "returned", {})
              ELSE Attempt(TwitterTrips(r.msg), 0, TRUE, "raised", r.msg)
    ELSE IF ~configured THEN Attempt(limited, 0, FALSE, "skipped_unconfigured", {})
    ELSE Attempt(limited, 0, FALSE, "skipped_breaker", {})

\* get_influencer_posts, lines 183-196: the high-quality subreddits
reddit_high_quality(configured, blocked, r) ==
    IF configured /\ ~blocked
    THEN IF r.kind = "returned" THEN Attempt(blocked, r.n, TRUE, "returned", {})
         ELSE Attempt(RedditTrips(r.msg), 0, TRUE, "raised", r.msg)
    ELSE IF ~configured THEN Attempt(blocked, 0, FALSE, "skipped_unconfigured", {})
    ELSE Attempt(blocked, 0, FALSE, "skipped_breaker", {})

\* is_twitter_available / is_reddit_available
is_twitter_available(limited, gst, t, configured) ==
    IF limited THEN FALSE
    ELSE IF DeadlineElapsed(gst, t) THEN FALSE
    ELSE configured

is_reddit_available(blocked, configured) == ~blocked /\ configured

(* ------------------------------ AIService ------------------------------ *)
\* _create_fallback_response
FallbackAnalysis == [sentiment |-> "neutral", impact |-> "minimal change", confidence |-> "low"]
NoAnalysis == [sentiment |-> "", impact |-> "", confidence |-> ""]

\* analyze_social_media_impact: the value of result["ai_analysis"], how the
\* analysis ended, and whether the method itself raised to its caller
analyze_social_media_impact(nposts, client_ok, up) ==
    IF nposts = 0 THEN [analysis |-> FallbackAnalysis, how |-> "no_posts", raised |-> FALSE]
    ELSE IF ~client_ok THEN [analysis |-> FallbackAnalysis, how |-> "no_client", raised |-> FALSE]
    ELSE IF up.kind = "raised"
         THEN [analysis |-> FallbackAnalysis, how |-> "upstream_raised", raised |-> FALSE]
    ELSE [analysis |-> [sentiment |-> up.sentiment, impact |-> up.impact,
                        confidence |-> up.confidence],
          how |-> "analysed", raised |-> FALSE]

(* -------------------------- PredictionService -------------------------- *)
\* the call sites of _collect_all_sources that sit in a try/except Exception
TryExcept == {"historical", "twitter", "reddit", "ai_analysis"}

\* variant: the historical fetch is made outside its try block
Caught_NotHistorical(site) == site \in TryExcept \ {"historical"}

Caught(site) == site \in TryExcept


\* variant: the analysis is made only when posts were collected
ShouldAnalyse_PostsOnly(d) == d.twitter + d.reddit > 0

\* line 107: if all_posts or data["historical"]
ShouldAnalyse(d) == d.twitter + d.reddit > 0 \/ d.historical > 0

\* dict.get(key, default) on data["ai_analysis"]
Get(v, default) == IF v = "" THEN default ELSE v

\* "increase" in impact / "decrease" in impact
HasIncrease(impact) == impact \in {"moderate increase", "significant increase"}
HasDecrease(impact) == impact \in {"moderate decrease", "significant decrease"}

Min(a, b) == IF a < b THEN a ELSE b

\* bonus of _generate_prediction for the number of posts / of price bars
PostsBonus(n) == IF n >= 15 THEN 20 ELSE IF n >= 5 THEN 10 ELSE 0
HistoricalBonus(n) == IF n >= 20 THEN 20 ELSE IF n >= 10 THEN 10 ELSE 0

\* confidence of the early return when no source succeeded, in hundredths
NoSourceConfidence == 0

generate_prediction(d) ==
    LET ss == d.successful_sources
        sentiment == Get(d.ai_analysis.sentiment, "neutral")
        impact == Get(d.ai_analysis.impact, "minimal change")
        posts_count == d.twitter + d.reddit
        base == [direction |-> "hold", confidence |-> NoSourceConfidence,
                 reasoning |-> "No data available",
                 sources_used |-> ss, total_posts_analyzed |-> posts_count,
                 historical_data_points |-> d.historical,
                 sentiment |-> sentiment, success |-> Len(ss) > 0]
    IN IF Len(ss) = 0
       THEN [base EXCEPT !.reasoning = "All data sources failed"]
       ELSE [base EXCEPT
               !.direction = IF sentiment \in {"very positive", "positive"} /\ HasIncrease(impact)
                             THEN "buy"
                             ELSE IF sentiment \in {"very negative", "negative"} /\ HasDecrease(impact)
                             THEN "sell" ELSE "hold",
               !.confidence = Min(Len(ss) * ConfidencePerSource + PostsBonus(posts_count)
                                  + HistoricalBonus(d.historical), ConfidenceCap),
               !.reasoning = "Based on data sources"]

(* ------------------------------- state --------------------------------- *)
VARIABLES
    now,                  \* time.time(), in ticks
    twitter_rate_limited, \* SocialMediaService.twitter_rate_limited
    reddit_blocked,       \* SocialMediaService.reddit_blocked
    global_start_time,    \* SocialMediaService.global_start_time
    openai_client,        \* AIService.openai_client is not None
    twitter_configured,   \* TwitterClient.is_configured()
    reddit_configured,    \* RedditClient.is_configured()
    pc,                   \* position of the running predict_price_movement
    opts,                 \* its include_reddit / include_posts arguments
    data,                 \* the dict of _collect_all_sources
    result,               \* what predict_price_movement returned
    escaped,              \* an exception reached the caller
    attempts,             \* per source: how its turn in this call ended
    aiPosts,              \* posts handed to analyze_social_media_impact
    aiCalls,              \* calls of analyze_social_media_impact in this call
    lastOp,               \* the last operation and its client calls
    failed,               \* per source: classified failures since the last reset
    calc,                 \* a call of one of the prediction helpers: its input and its result
    twitter_api,          \* posts the Twitter API has for the ticker of this call
    tasks                 \* calls that share one service: position, own start, deadline seen

\* what the constructors fixed from the environment
config == <<openai_client, twitter_configured, reddit_configured>>

\* the state of the prediction service and of its social media service
service == <<now, twitter_rate_limited, reddit_blocked, global_start_time, config, pc, opts,
             data, result, escaped, attempts, aiPosts, aiCalls, lastOp, failed, twitter_api>>

vars == <<service, calc, tasks>>

\* a helper call: the helper's name, its argument, and, once it has returned
\* or raised, its outcome
Pending(fn, arg) == [fn |-> fn, arg |-> arg, done |-> FALSE, raised |-> FALSE, out |-> <<>>]
NoCalc == Pending("none", <<>>)

Sources == {"historical", "twitter", "reddit", "ai_analysis"}

EmptyData == [historical |-> 0, twitter |-> 0, reddit |-> 0,
              ai_analysis |-> NoAnalysis, successful_sources |-> <<>>]
NoResult == [direction |-> "", confidence |-> 0, reasoning |-> "",
             sources_used |-> <<>>, total_posts_analyzed |-> 0,
             historical_data_points |-> 0, sentiment |-> "", success |-> FALSE]
NoAttempts == [s \in Sources |-> "none"]
NoOpts == [include_reddit |-> FALSE, include_posts |-> FALSE]
Op(name, calls, tw, rd, twmsg, rdmsg) ==
    [op |-> name, calls |-> calls, twitter |-> tw, reddit |-> rd,
     twitter_msg |-> twmsg, reddit_msg |-> rdmsg]
NoCalls(name) == Op(name, {}, "none", "none", {}, {})

\* the services as their constructors leave them
ServiceInit ==
    /\ now = 1
    /\ twitter_rate_limited = FALSE
    /\ reddit_blocked = FALSE
    /\ global_start_time = None
    /\ openai_client \in BOOLEAN
    /\ twitter_configured \in BOOLEAN
    /\ reddit_configured \in BOOLEAN
    /\ pc = "idle"
    /\ opts = NoOpts
    /\ data = EmptyData
    /\ result = NoResult
    /\ escaped = FALSE
    /\ attempts = NoAttempts
    /\ aiPosts = 0
    /\ aiCalls = 0
    /\ lastOp = NoCalls("init")
    /\ failed = [s \in {"twitter", "reddit"} |-> {}]
    /\ twitter_api = 0

\* the calls that share the service
Tasks == {1, 2}
\* a call that is not running
NoTask == [pc |-> "idle", start |-> None, checked |-> FALSE, deadline_used |-> None,
          tripped |-> {}]
NoTasks == [t \in Tasks |-> NoTask]

Init ==
    /\ ServiceInit
    /\ calc = NoCalc
    /\ tasks = NoTasks

(* ------------------------------ the clock ------------------------------ *)
\* a blocking call returns after some time
Elapse == \E d \in 0..(MaxTime - now) : now' = now + d

\* time that passes while no call is running
Tick ==
    /\ pc = "idle"
    /\ now < MaxTime
    /\ now' = now + 1
    /\ lastOp' = NoCalls("tick")
    /\ UNCHANGED <<twitter_rate_limited, reddit_blocked, global_start_time, config, pc,
                   opts, data, result, escaped, attempts, aiPosts, aiCalls, failed>>
    /\ UNCHANGED <<calc, tasks, twitter_api>>

(* --------------- PredictionService.predict_price_movement --------------- *)
\* The call is taken one source at a time: each step is one blocking call,
\* and the clock advances while a gateway is being called.
Idle == pc = "idle"

\* line 81: if include_posts and self.social_media_service
TwitterIncluded(o) == o.include_posts

\* variant: the Reddit fetch shares the try block of the Twitter fetch
RedditIncluded_SameTry(o) ==
    o.include_posts /\ o.include_reddit /\ attempts["twitter"] # "raised"

\* line 81 and line 93: if include_reddit
RedditIncluded(o) == o.include_posts /\ o.include_reddit

\* variant: a new deadline also closes the breakers
PredictStart_ClosesBreakers(include_reddit, include_posts) ==
    /\ pc = "idle"
    /\ pc' = "historical"
    /\ opts' = [include_reddit |-> include_reddit, include_posts |-> include_posts]
    /\ global_start_time' = now
    /\ twitter_rate_limited' = FALSE
    /\ reddit_blocked' = FALSE
    /\ data' = EmptyData
    /\ result' = NoResult
    /\ attempts' = NoAttempts
    /\ aiPosts' = 0
    /\ aiCalls' = 0
    /\ lastOp' = NoCalls("set_global_start_time")
    /\ UNCHANGED <<now, config, escaped, failed>>
    /\ twitter_api' = 0
    /\ UNCHANGED <<calc, tasks>>

\* lines 41-48: set_global_start_time(time.time()), then the collection starts
PredictStart(include_reddit, include_posts) ==
    /\ Idle
    /\ pc' = "historical"
    /\ opts' = [include_reddit |-> include_reddit, include_posts |-> include_posts]
    /\ global_start_time' = now
    /\ data' = EmptyData
    /\ result' = NoResult
    /\ attempts' = NoAttempts
    /\ aiPosts' = 0
    /\ aiCalls' = 0
    /\ lastOp' = NoCalls("set_global_start_time")
    /\ UNCHANGED <<now, twitter_rate_limited, reddit_blocked, config, escaped, failed>>
    /\ twitter_api' = 0
    /\ UNCHANGED <<calc, tasks>>

\* SOURCE 1, lines 68-78
CollectHistorical ==
    /\ pc = "historical"
    /\ Elapse
    /\ \E r \in HistoricalResults :
        /\ IF r.kind = "raised" /\ ~Caught("historical")
           THEN /\ pc' = "done"
                /\ escaped' = TRUE
                /\ data' = data
           ELSE /\ pc' = "twitter"
                /\ escaped' = escaped
                /\ data' = IF r.kind = "returned" /\ r.n > 0
                           THEN [data EXCEPT !.historical = r.n,
                                             !.successful_sources = Append(@, "historical")]
                           ELSE data
        /\ attempts' = [attempts EXCEPT !["historical"] = r.kind]
        /\ lastOp' = Op("get_historical_data", {"historical"}, "none", "none", {}, {})
    /\ UNCHANGED <<twitter_rate_limited, reddit_blocked, global_start_time, config, opts,
                   result, aiPosts, aiCalls, failed>>
    /\ UNCHANGED <<calc, tasks, twitter_api>>

\* SOURCE 2, lines 80-90
CollectTwitter ==
    /\ pc = "twitter"
    /\ pc' = "reddit"
    /\ IF TwitterIncluded(opts)
       THEN \E body \in TwitterBodyResults :
              LET a == get_twitter_posts_only(twitter_rate_limited, global_start_time, now, body) IN
              /\ twitter_rate_limited' = a.flag
              /\ IF a.called THEN Elapse ELSE now' = now
              /\ data' = IF a.posts > 0
                         THEN [data EXCEPT !.twitter = a.posts,
                                           !.successful_sources = Append(@, "twitter")]
                         ELSE data
              /\ attempts' = [attempts EXCEPT !["twitter"] = a.out]
              /\ lastOp' = Op("get_twitter_posts_only", IF a.called THEN {"twitter"} ELSE {},
                              a.out, "none", a.msg, {})
              /\ failed' = [failed EXCEPT !["twitter"] = @ \cup KindsOf(a.msg)]
              /\ twitter_api' = body.n
       ELSE /\ attempts' = [attempts EXCEPT !["twitter"] = "skipped_option"]
            /\ lastOp' = NoCalls("collect_all_sources")
            /\ UNCHANGED <<now, twitter_rate_limited, data, failed, twitter_api>>
    /\ UNCHANGED <<reddit_blocked, global_start_time, config, opts, result, escaped,
                   aiPosts, aiCalls>>
    /\ UNCHANGED <<calc, tasks>>

\* SOURCE 3, lines 92-101
CollectReddit ==
    /\ pc = "reddit"
    /\ pc' = "ai"
    /\ IF RedditIncluded(opts)
       THEN \E r \in RedditResults(reddit_configured) :
              LET a == get_reddit_posts_only(reddit_blocked, r) IN
              /\ reddit_blocked' = a.flag
              /\ IF a.called THEN Elapse ELSE now' = now
              /\ data' = IF a.posts > 0
                         THEN [data EXCEPT !.reddit = a.posts,
                                           !.successful_sources = Append(@, "reddit")]
                         ELSE data
              /\ attempts' = [attempts EXCEPT !["reddit"] = a.out]
              /\ lastOp' = Op("get_reddit_posts_only", IF a.called THEN {"reddit"} ELSE {},
                              "none", a.out, {}, a.msg)
              /\ failed' = [failed EXCEPT !["reddit"] = @ \cup KindsOf(a.msg)]
       ELSE /\ attempts' = [attempts EXCEPT !["reddit"] = "skipped_option"]
            /\ lastOp' = NoCalls("collect_all_sources")
            /\ UNCHANGED <<now, reddit_blocked, data, failed>>
    /\ UNCHANGED <<twitter_rate_limited, global_start_time, config, opts, result, escaped,
                   aiPosts, aiCalls>>
    /\ UNCHANGED <<calc, tasks, twitter_api>>

\* SOURCE 4, lines 103-121
CollectAI ==
    /\ pc = "ai"
    /\ pc' = "generate"
    /\ LET all_posts == data.twitter + data.reddit IN
       IF ShouldAnalyse(data)
       THEN \E up \in OpenAIResults :
              LET r == analyze_social_media_impact(all_posts, openai_client, up) IN
              /\ aiPosts' = all_posts
              /\ IF r.how \in {"analysed", "upstream_raised"} THEN Elapse ELSE now' = now
              /\ aiCalls' = aiCalls + 1
              /\ IF r.raised
                 THEN /\ data' = [data EXCEPT !.ai_analysis = FallbackAnalysis]
                      /\ attempts' = [attempts EXCEPT !["ai_analysis"] = "raised"]
                 ELSE /\ data' = [data EXCEPT !.ai_analysis = r.analysis,
                                              !.successful_sources = Append(@, "ai_analysis")]
                      /\ attempts' = [attempts EXCEPT !["ai_analysis"] = r.how]
              /\ lastOp' = Op("analyze_social_media_impact",
                              IF r.how \in {"analysed", "upstream_raised"}
                              THEN {"ai_service", "openai"} ELSE {"ai_service"},
                              "none", "none", {}, {})
       ELSE /\ attempts' = [attempts EXCEPT !["ai_analysis"] = "skipped_nodata"]
            /\ lastOp' = NoCalls("collect_all_sources")
            /\ UNCHANGED <<now, data, aiPosts, aiCalls>>
    /\ UNCHANGED <<twitter_rate_limited, reddit_blocked, global_start_time, config, opts,
                   result, escaped, failed>>
    /\ UNCHANGED <<calc, tasks, twitter_api>>

\* lines 53-56 and _generate_prediction, lines 126-196
GeneratePrediction ==
    /\ pc = "generate"
    /\ pc' = "done"
    /\ result' = generate_prediction(data)
    /\ lastOp' = NoCalls("generate_prediction")
    /\ UNCHANGED <<now, twitter_rate_limited, reddit_blocked, global_start_time, config,
                   opts, data, escaped, attempts, aiPosts, aiCalls, failed>>
    /\ UNCHANGED <<calc, tasks, twitter_api>>

\* the caller takes the result; the locals of the call are gone
Return ==
    /\ pc = "done"
    /\ pc' = "idle"
    /\ opts' = NoOpts
    /\ data' = EmptyData
    /\ result' = NoResult
    /\ attempts' = NoAttempts
    /\ aiPosts' = 0
    /\ aiCalls' = 0
    /\ escaped' = FALSE
    /\ lastOp' = NoCalls("return")
    /\ UNCHANGED <<now, twitter_rate_limited, reddit_blocked, global_start_time, config,
                   failed>>
    /\ twitter_api' = 0
    /\ UNCHANGED <<calc, tasks>>

(* ------------- operations between two aggregate calls ------------------ *)
Called(tw, rd) == (IF tw.called THEN {"twitter"} ELSE {}) \cup (IF rd.called THEN {"reddit"} ELSE {})

\* SocialMediaService.get_posts_for_ticker, as AIPredictionService calls it
GetPostsForTicker(include_reddit) ==
    /\ Idle
    /\ \E body \in TwitterBodyResults, r \in RedditResults(reddit_configured) :
         LET tw == twitter_collection(twitter_rate_limited, global_start_time, now, body)
             rd == reddit_collection(include_reddit, reddit_blocked, r) IN
         /\ twitter_rate_limited' = tw.flag
         /\ reddit_blocked' = rd.flag
         /\ lastOp' = Op("get_posts_for_ticker", Called(tw, rd), tw.out, rd.out, tw.msg, rd.msg)
         /\ failed' = [failed EXCEPT !["twitter"] = @ \cup KindsOf(tw.msg),
                                     !["reddit"] = @ \cup KindsOf(rd.msg)]
    /\ UNCHANGED <<now, global_start_time, config, pc, opts, data, result, escaped,
                   attempts, aiPosts, aiCalls>>
    /\ UNCHANGED <<calc, tasks, twitter_api>>

\* SocialMediaService.get_influencer_posts(ticker)
GetInfluencerPosts ==
    /\ Idle
    /\ \E body \in TwitterBodyResults, r \in RedditResults(reddit_configured) :
         LET tw == twitter_influencers(twitter_configured, twitter_rate_limited,
                                       global_start_time, now, body)
             rd == reddit_high_quality(reddit_configured, reddit_blocked, r) IN
         /\ twitter_rate_limited' = tw.flag
         /\ reddit_blocked' = rd.flag
         /\ lastOp' = Op("get_influencer_posts", Called(tw, rd), tw.out, rd.out, tw.msg, rd.msg)
         /\ failed' = [failed EXCEPT !["twitter"] = @ \cup KindsOf(tw.msg),
                                     !["reddit"] = @ \cup KindsOf(rd.msg)]
    /\ UNCHANGED <<now, global_start_time, config, pc, opts, data, result, escaped,
                   attempts, aiPosts, aiCalls>>
    /\ UNCHANGED <<calc, tasks, twitter_api>>

\* PredictionService.get_service_status -> get_platform_status
GetServiceStatus ==
    /\ Idle
    /\ lastOp' = Op("get_service_status", {},
                    IF is_twitter_available(twitter_rate_limited, global_start_time, now,
                                            twitter_configured)
                    THEN "operational" ELSE "unavailable",
                    IF is_reddit_available(reddit_blocked, reddit_configured)
                    THEN "operational" ELSE "unavailable", {}, {})
    /\ UNCHANGED <<now, twitter_rate_limited, reddit_blocked, global_start_time, config,
                   pc, opts, data, result, escaped, attempts, aiPosts, aiCalls, failed>>
    /\ UNCHANGED <<calc, tasks, twitter_api>>

\* SocialMediaService.reset_platform_status
reset_platform_status ==
    /\ twitter_rate_limited' = FALSE
    /\ reddit_blocked' = FALSE
    /\ global_start_time' = None

\* PredictionService.reset_failures
ResetFailures ==
    /\ Idle
    /\ reset_platform_status
    /\ lastOp' = NoCalls("reset_platform_status")
    /\ failed' = [s \in {"twitter", "reddit"} |-> {}]
    /\ UNCHANGED <<now, config, pc, opts, data, result, escaped, attempts, aiPosts,
                   aiCalls>>
    /\ UNCHANGED <<calc, tasks, twitter_api>>

Next ==
    \/ Tick
    \/ \E ir \in BOOLEAN, ip \in BOOLEAN : PredictStart(ir, ip)
    \/ CollectHistorical
    \/ CollectTwitter
    \/ CollectReddit
    \/ CollectAI
    \/ GeneratePrediction
    \/ Return
    \/ \E ir \in BOOLEAN : GetPostsForTicker(ir)
    \/ GetInfluencerPosts
    \/ GetServiceStatus
    \/ ResetFailures

Spec == Init /\ [][Next]_vars

TypeOK ==
    /\ now \in 1..MaxTime
    /\ twitter_rate_limited \in BOOLEAN
    /\ reddit_blocked \in BOOLEAN
    /\ global_start_time \in 0..MaxTime
    /\ pc \in {"idle", "historical", "twitter", "reddit", "ai", "generate", "done"}

(* ------------------------- prediction helpers -------------------------- *)
\* The helpers of app/prediction are functions of their arguments.  A helper
\* call starts with its argument chosen and ends with the helper's outcome;
\* the services are configured and stay as constructed meanwhile.
HelperInit ==
    /\ ServiceInit
    /\ openai_client /\ twitter_configured /\ reddit_configured
    /\ tasks = NoTasks

\* a helper returned v / raised to its caller
Return_(v) == [raised |-> FALSE, value |-> v]
Raise_ == [raised |-> TRUE, value |-> <<>>]

Finish(r) == calc' = [calc EXCEPT !.done = TRUE, !.raised = r.raised, !.out = r.value]

Max(a, b) == IF a > b THEN a ELSE b

(* ------------------------ ConfidenceCalculator ------------------------- *)
\* an argument that should be a dict: a dict, None, or some other object.
\* In a dict a key that is absent is the empty label; "?" is a label that no
\* table of the calculator knows.
IsMapping(a) == a.kind = "mapping"

Directions == {"strong_buy", "buy", "hold", "sell", "strong_sell", "", "?"}
Alignments == {"strong_alignment", "good_alignment", "neutral", "mixed", "conflicting", "", "?"}
Strengths == {"very_strong", "strong", "moderate", "weak", "very_weak", "", "?"}
AIConfidences == {"low", "medium", "high", "", "?"}
DataQualities == {"good", "limited", "insufficient", ""}

\* number of posts analysed, up to MaxPostCount
MaxPostCount == 21
ConfidencePostCounts == {0, 1, 10, 19, 20, MaxPostCount}

NotADict == {[kind |-> k] : k \in {"none", "not_mapping"}}
PredictionArgs ==
    {[kind |-> "mapping", direction |-> d, signal_alignment |-> a, combined_strength |-> c] :
        d \in Directions, a \in Alignments, c \in Strengths} \cup NotADict
\* ai_analysis["ai_analysis"] is a dict, a JSON string of one, or a string
\* that json.loads rejects
AIAnalysisArgs ==
    {[kind |-> "mapping", form |-> f, confidence |-> c] :
        f \in {"dict", "json"}, c \in AIConfidences}
    \cup {[kind |-> "mapping", form |-> "bad_json", confidence |-> ""]} \cup NotADict
TechnicalArgs == {[kind |-> "mapping", data_quality |-> q] : q \in DataQualities} \cup NotADict

ConfidenceArgs ==
    [prediction : PredictionArgs, ai_analysis : AIAnalysisArgs,
     technical_signals : TechnicalArgs, post_count : ConfidencePostCounts]

\* __init__: the bounds in hundredths, the weights in hundredths, the
\* ai_confidence_map in tenths
min_confidence == 10
max_confidence == 95
WeightBase == 20
WeightAI == 30
WeightDataQuality == 25
WeightAlignment == 25
ai_confidence_map(label) ==
    IF label = "low" THEN 3 ELSE IF label = "medium" THEN 6 ELSE IF label = "high" THEN 9
    ELSE 5
\* the default of _calculate_ai_confidence_factor's except branch, in tenths
AIFactorDefault == 5

\* _calculate_ai_confidence_factor, in tenths: never raises
calculate_ai_confidence_factor(ai) ==
    IF ~IsMapping(ai) THEN AIFactorDefault
    ELSE IF ai.form = "bad_json" THEN AIFactorDefault
    ELSE ai_confidence_map(Get(ai.confidence, "medium"))

\* _calculate_data_quality_factor, in thousandths; raises on a
\* technical_signals without .get
PostsFullAt == 20
posts_factor(post_count) == Min(100, (100 * post_count) \div PostsFullAt)
tech_factor(q) == IF q = "good" THEN 100 ELSE 70
calculate_data_quality_factor(post_count, tech) ==
    IF ~IsMapping(tech) THEN Raise_
    ELSE Return_(posts_factor(post_count) * 6 + tech_factor(Get(tech.data_quality, "limited")) * 4)

\* _calculate_signal_alignment_factor, in thousandths; raises on a
\* prediction without .get
alignment_scores(a) ==
    IF a = "strong_alignment" THEN 10 ELSE IF a = "good_alignment" THEN 8
    ELSE IF a = "neutral" THEN 6 ELSE IF a = "mixed" THEN 4
    ELSE IF a = "conflicting" THEN 2 ELSE 5
strength_scores(c) ==
    IF c = "very_strong" THEN 10 ELSE IF c = "strong" THEN 8
    ELSE IF c = "moderate" THEN 6 ELSE IF c = "weak" THEN 4
    ELSE IF c = "very_weak" THEN 2 ELSE 5
calculate_signal_alignment_factor(p) ==
    IF ~IsMapping(p) THEN Raise_
    ELSE Return_(alignment_scores(Get(p.signal_alignment, "mixed")) * 60
                 + strength_scores(Get(p.combined_strength, "weak")) * 40)

\* _calculate_base_factor, in tenths
calculate_base_factor == 5

\* _get_prediction_multiplier, in tenths
get_prediction_multiplier(p) ==
    LET direction == Get(p.direction, "hold")
        alignment == Get(p.signal_alignment, "mixed")
    IN IF direction \in {"strong_buy", "strong_sell"}
       THEN IF alignment \in {"strong_alignment", "good_alignment"} THEN 12 ELSE 8
       ELSE IF direction \in {"buy", "sell"} THEN 10 ELSE 8

\* variant: only the lower bound is enforced
Clamp_LowerOnly(x) == Max(min_confidence * 10000, x)

\* line 59: max(min_confidence, min(max_confidence, x)), in millionths
Clamp(x) == Max(min_confidence * 10000, Min(max_confidence * 10000, x))

\* round(x, 2) of a value in millionths, in hundredths.  On an exact decimal
\* tie the binary value of the float decides, so both neighbours can come out.
Round2(x) ==
    LET q == x \div 10000
        r == x % 10000
    IN IF r < 5000 THEN {q} ELSE IF r > 5000 THEN {q + 1} ELSE {q, q + 1}

\* variant: the fallback is the default of the AI factor
ConfidenceFallback_Medium == AIFactorDefault * 10

\* line 71: the conservative fallback, in hundredths
ConfidenceFallback == 40

\* calculate_confidence: the set of values it can return, in hundredths
calculate_confidence(a) ==
    LET ai == calculate_ai_confidence_factor(a.ai_analysis)
        dq == calculate_data_quality_factor(a.post_count, a.technical_signals)
        sa == calculate_signal_alignment_factor(a.prediction)
    IN IF dq.raised \/ sa.raised
       THEN {Return_(ConfidenceFallback)}
       ELSE LET weighted == calculate_base_factor * WeightBase * 100
                            + ai * WeightAI * 100
                            + dq.value * WeightDataQuality
                            + sa.value * WeightAlignment
                final == Clamp(weighted * get_prediction_multiplier(a.prediction))
            IN {Return_(v) : v \in Round2(final)}

CalculateConfidence ==
    /\ calc.fn = "calculate_confidence"
    /\ ~calc.done
    /\ \E r \in calculate_confidence(calc.arg) : Finish(r)
    /\ UNCHANGED <<service, tasks>>

InitConfidence ==
    /\ HelperInit
    /\ calc \in {Pending("calculate_confidence", a) : a \in ConfidenceArgs}

NextConfidence == CalculateConfidence

SpecConfidence == InitConfidence /\ [][NextConfidence]_vars

(* ------------------ AIPredictionService: duplicates -------------------- *)
\* A post is its 'id' ("" when the key is absent, None or empty) and its
\* 'text', written as a sequence of blocks of BlockChars characters (<<>> when
\* the key is absent or the text is empty).
ContentPrefixLen == 100
BlockChars == 50
MaxPosts == 3

PostIds == {"", "t1", "t2"}
\* no text, a text shorter than the prefix, one of exactly the prefix length,
\* two that differ only after it, and one that differs from the start
PostTexts == {<<>>, <<"x">>, <<"x", "y">>, <<"x", "y", "x">>, <<"x", "y", "y">>,
              <<"y", "y", "x">>}
Posts == [id : PostIds, text : PostTexts]
PostLists == UNION {[1..n -> Posts] : n \in 0..MaxPosts}

\* variant: the whole text is the similarity key
Prefix_WholeText(text) == text

\* post.get('text', '')[:100]
Prefix(text) == SubSeq(text, 1, Min(Len(text), ContentPrefixLen \div BlockChars))

\* line 149: if post_id and post_id in seen_ids
IsDuplicateId(post_id, seen_ids) == post_id # "" /\ post_id \in seen_ids

\* variant: similar content is never a reason to skip
IsDuplicateContent_Never(post_content, seen_content) == FALSE

\* line 151: if post_content and post_content in seen_content
IsDuplicateContent(post_content, seen_content) ==
    post_content # <<>> /\ post_content \in seen_content

\* the loop of _remove_duplicate_posts from post i on; kept holds the
\* positions of the posts appended to unique_posts so far
RECURSIVE RemoveFrom(_, _, _, _, _)
RemoveFrom(posts, i, seen_ids, seen_content, kept) ==
    IF i > Len(posts) THEN kept
    ELSE LET post_id == posts[i].id
             post_content == Prefix(posts[i].text)
         IN IF IsDuplicateId(post_id, seen_ids)
            THEN RemoveFrom(posts, i + 1, seen_ids, seen_content, kept)
            ELSE IF IsDuplicateContent(post_content, seen_content)
            THEN RemoveFrom(posts, i + 1, seen_ids, seen_content, kept)
            ELSE RemoveFrom(posts, i + 1,
                            IF post_id # "" THEN seen_ids \cup {post_id} ELSE seen_ids,
                            IF post_content # <<>> THEN seen_content \cup {post_content}
                            ELSE seen_content,
                            Append(kept, i))

\* _remove_duplicate_posts: the list it returns, with the input position of
\* each returned post
remove_duplicate_posts(posts) ==
    LET kept == RemoveFrom(posts, 1, {}, {}, <<>>)
    IN [kept |-> kept, unique_posts |-> [k \in 1..Len(kept) |-> posts[kept[k]]]]

RemoveDuplicatePosts ==
    /\ calc.fn = "remove_duplicate_posts"
    /\ ~calc.done
    /\ Finish(Return_(remove_duplicate_posts(calc.arg)))
    /\ UNCHANGED <<service, tasks>>

InitDedupe ==
    /\ HelperInit
    /\ calc \in {Pending("remove_duplicate_posts", P) : P \in PostLists}

NextDedupe == RemoveDuplicatePosts

SpecDedupe == InitDedupe /\ [][NextDedupe]_vars

(* ---------------------------- SignalCombiner --------------------------- *)
Trends == {"up", "down", "neutral"}
\* the 5-point scale, and "?" for a label outside it
SentimentScale == {"very positive", "positive", "neutral", "negative", "very negative"}
SentimentLabels == SentimentScale \cup {"?"}

\* The value under ai_analysis["ai_analysis"]: a dict (an absent key is ""),
\* a list, or a str, written as its sequence of JSON tokens.
\* A dict can also carry 'reasoning' (a text), 'key_factors' and 'patterns'
\* (lists of texts).
RichDict(sentiment, impact, reasoning, key_factors, patterns) ==
    [form |-> "dict", sentiment |-> sentiment, impact |-> impact, tokens |-> <<>>,
     reasoning |-> reasoning, key_factors |-> key_factors, patterns |-> patterns]
DictValue(sentiment, impact) == RichDict(sentiment, impact, "", <<>>, <<>>)
ListValue == [DictValue("", "") EXCEPT !.form = "list"]
StrValue(tokens) == [DictValue("", "") EXCEPT !.form = "str", !.tokens = tokens]
EmptyDict == DictValue("", "")

\* JSON tokens: braces, comma, the document [] and "key": "value" members
Punct(t) == [t |-> t, key |-> "", val |-> ""]
Member(key, val) == [t |-> "member", key |-> key, val |-> val]
JsonTokens ==
    {Punct("{"), Punct("}"), Punct(","), Punct("[]"),
     Member("sentiment", "very positive"), Member("sentiment", "negative"),
     Member("impact", "moderate increase")}
MaxTokens == 5
JsonStrings == UNION {[1..n -> JsonTokens] : n \in 0..MaxTokens}

\* json.dumps of a dict value
json_dumps(d) ==
    LET ms == (IF d.sentiment # "" THEN <<Member("sentiment", d.sentiment)>> ELSE <<>>)
        mi == (IF d.impact # "" THEN <<Member("impact", d.impact)>> ELSE <<>>)
        sep == (IF d.sentiment # "" /\ d.impact # "" THEN <<Punct(",")>> ELSE <<>>)
    IN <<Punct("{")>> \o ms \o sep \o mi \o <<Punct("}")>>

\* the value of the last member with this key, "" when there is none
LastMember(inner, key) ==
    LET at == {k \in 1..Len(inner) : inner[k].t = "member" /\ inner[k].key = key}
    IN IF at = {} THEN ""
       ELSE inner[CHOOSE k \in at : \A j \in at : j <= k].val

\* json.loads: the parsed value, or JSONDecodeError
json_loads(s) ==
    IF s = <<Punct("[]")>> THEN Return_(ListValue)
    ELSE IF Len(s) < 2 \/ s[1] # Punct("{") \/ s[Len(s)] # Punct("}") THEN Raise_
    ELSE LET inner == SubSeq(s, 2, Len(s) - 1)
             n == Len(inner)
         IN IF n = 0 THEN Return_(EmptyDict)
            ELSE IF /\ n % 2 = 1
                    /\ \A k \in 1..n : IF k % 2 = 1 THEN inner[k].t = "member"
                                       ELSE inner[k] = Punct(",")
            THEN Return_(DictValue(LastMember(inner, "sentiment"),
                                   LastMember(inner, "impact")))
            ELSE Raise_

\* the ai_analysis argument: None, or a dict holding one of the values
AIAnalysisNone == [kind |-> "none", payload |-> EmptyDict]
AIAnalysisOf(v) == [kind |-> "mapping", payload |-> v]

\* variant: the decode error is left to the caller
extract_ai_results_NoCatch(ai_analysis) ==
    IF ~IsMapping(ai_analysis) THEN Raise_
    ELSE IF ai_analysis.payload.form = "str"
    THEN json_loads(ai_analysis.payload.tokens)
    ELSE Return_(ai_analysis.payload)

\* _extract_ai_results
extract_ai_results(ai_analysis) ==
    IF ~IsMapping(ai_analysis) THEN Raise_
    ELSE IF ai_analysis.payload.form = "str"
    THEN LET parsed == json_loads(ai_analysis.payload.tokens)
         IN IF parsed.raised THEN Return_(EmptyDict) ELSE parsed
    ELSE Return_(ai_analysis.payload)

\* variant: the strong row of the table is missing
prediction_map_NoStrong ==
    (<<"up", "positive">> :> "buy") @@ (<<"up", "very positive">> :> "buy")
    @@ (<<"down", "negative">> :> "sell") @@ (<<"down", "very negative">> :> "strong_sell")
    @@ (<<"neutral", "neutral">> :> "hold")

\* __init__: self.prediction_map
prediction_map ==
    (<<"up", "positive">> :> "buy") @@ (<<"up", "very positive">> :> "strong_buy")
    @@ (<<"down", "negative">> :> "sell") @@ (<<"down", "very negative">> :> "strong_sell")
    @@ (<<"neutral", "neutral">> :> "hold")

\* variant: contradicting signals are held
combiner_generate_prediction_ConflictHolds(technical_trend, sentiment) ==
    IF <<technical_trend, sentiment>> \in DOMAIN prediction_map
    THEN prediction_map[<<technical_trend, sentiment>>]
    ELSE IF \/ technical_trend = "up" /\ sentiment \in {"negative", "very negative"}
            \/ technical_trend = "down" /\ sentiment \in {"positive", "very positive"}
    THEN "hold"
    ELSE IF technical_trend = "up" \/ sentiment \in {"positive", "very positive"}
    THEN "buy"
    ELSE IF technical_trend = "down" \/ sentiment \in {"negative", "very negative"}
    THEN "sell"
    ELSE "hold"

\* SignalCombiner._generate_prediction
combiner_generate_prediction(technical_trend, sentiment) ==
    IF <<technical_trend, sentiment>> \in DOMAIN prediction_map
    THEN prediction_map[<<technical_trend, sentiment>>]
    ELSE IF technical_trend = "up" /\ sentiment \in {"positive", "very positive"}
    THEN (IF sentiment = "very positive" THEN "strong_buy" ELSE "buy")
    ELSE IF technical_trend = "up" \/ sentiment \in {"positive", "very positive"}
    THEN "buy"
    ELSE IF technical_trend = "down" /\ sentiment \in {"negative", "very negative"}
    THEN (IF sentiment = "very negative" THEN "strong_sell" ELSE "sell")
    ELSE IF technical_trend = "down" \/ sentiment \in {"negative", "very negative"}
    THEN "sell"
    ELSE "hold"

\* _get_prediction_reasoning: which of its sentences it returns
get_prediction_reasoning(technical_trend, sentiment, prediction) ==
    IF prediction \in {"strong_buy", "strong_sell"} THEN "align strongly"
    ELSE IF prediction \in {"buy", "sell"}
    THEN IF technical_trend # "neutral" /\ sentiment # "neutral" THEN "signals support"
         ELSE IF technical_trend # "neutral" THEN "technical suggests"
         ELSE "sentiment suggests"
    ELSE "mixed or neutral"

\* variant: agreeing signals count as strong alignment
assess_signal_alignment_Agreeing(technical_trend, sentiment) ==
    IF technical_trend = "neutral" /\ sentiment = "neutral" THEN "neutral"
    ELSE IF \/ technical_trend = "up" /\ sentiment \in {"positive", "very positive"}
            \/ technical_trend = "down" /\ sentiment \in {"negative", "very negative"}
    THEN "strong_alignment"
    ELSE IF \/ technical_trend = "up" /\ sentiment \in {"negative", "very negative"}
            \/ technical_trend = "down" /\ sentiment \in {"positive", "very positive"}
    THEN "conflicting"
    ELSE "mixed"

\* _assess_signal_alignment
assess_signal_alignment(technical_trend, sentiment) ==
    IF technical_trend = "neutral" /\ sentiment = "neutral" THEN "neutral"
    ELSE IF technical_trend = sentiment THEN "strong_alignment"
    ELSE IF \/ technical_trend = "up" /\ sentiment \in {"positive", "very positive"}
            \/ technical_trend = "down" /\ sentiment \in {"negative", "very negative"}
    THEN "good_alignment"
    ELSE IF \/ technical_trend = "up" /\ sentiment \in {"negative", "very negative"}
            \/ technical_trend = "down" /\ sentiment \in {"positive", "very positive"}
    THEN "conflicting"
    ELSE "mixed"

Abs(x) == IF x < 0 THEN 0 - x ELSE x

\* _calculate_combined_strength
calculate_combined_strength(technical_signals, sentiment) ==
    LET price_change_pct == Abs(technical_signals.price_change_percent)
        technical_strength ==
            IF technical_signals.trend # "neutral"
            THEN IF price_change_pct > 5 THEN 3 ELSE IF price_change_pct > 2 THEN 2 ELSE 1
            ELSE 0
        sentiment_strength ==
            IF sentiment \in {"very positive", "very negative"} THEN 3
            ELSE IF sentiment \in {"positive", "negative"} THEN 2
            ELSE IF sentiment # "neutral" THEN 1 ELSE 0
        total_strength == technical_strength + sentiment_strength
    IN IF total_strength >= 5 THEN "very_strong"
       ELSE IF total_strength >= 3 THEN "strong"
       ELSE IF total_strength >= 2 THEN "moderate"
       ELSE IF total_strength >= 1 THEN "weak"
       ELSE "very_weak"

\* q[:k]
Take(q, k) == SubSeq(q, 1, Min(Len(q), k))

\* the AI reasoning keeps the first 3 key factors and the first 2 patterns
MaxKeyFactors == 3
MaxPatterns == 2

\* An entry of the reasoning list is written as the tuple of its leading
\* words and the texts it quotes.
\* variant: the key factors and the patterns come before the AI's reasoning
extract_ai_reasoning_FactorsFirst(ai_result) ==
    (IF ai_result.key_factors # <<>>
     THEN <<(<<"Key factors">> \o Take(ai_result.key_factors, MaxKeyFactors))>> ELSE <<>>)
    \o (IF ai_result.patterns # <<>>
        THEN <<(<<"Patterns">> \o Take(ai_result.patterns, MaxPatterns))>> ELSE <<>>)
    \o (IF ai_result.reasoning # "" THEN << <<"AI", ai_result.reasoning>> >> ELSE <<>>)

\* _extract_ai_reasoning
extract_ai_reasoning(ai_result) ==
    (IF ai_result.reasoning # "" THEN << <<"AI", ai_result.reasoning>> >> ELSE <<>>)
    \o (IF ai_result.key_factors # <<>>
        THEN <<(<<"Key factors">> \o Take(ai_result.key_factors, MaxKeyFactors))>> ELSE <<>>)
    \o (IF ai_result.patterns # <<>>
        THEN <<(<<"Patterns">> \o Take(ai_result.patterns, MaxPatterns))>> ELSE <<>>)

\* _extract_technical_reasoning; price_vs_sma and volatility_level are ""
\* when the key is absent
extract_technical_reasoning(technical_signals) ==
    (IF technical_signals.trend # "neutral"
     THEN << <<"Technical", technical_signals.trend>> >> ELSE <<>>)
    \o (IF technical_signals.price_vs_sma # ""
        THEN << <<"Price is", technical_signals.price_vs_sma>> >> ELSE <<>>)
    \o (IF technical_signals.volatility_level # ""
        THEN << <<"Market volatility", technical_signals.volatility_level>> >> ELSE <<>>)

\* combine_signals.  ai_result.get raises on a value that is not a dict, and
\* the except branch of lines 36-38 leaves the defaults in place.
combine_signals(technical_signals, ai_analysis) ==
    LET extracted == extract_ai_results(ai_analysis)
        parse_failed == extracted.raised \/ extracted.value.form # "dict"
        sentiment == IF parse_failed THEN "neutral" ELSE Get(extracted.value.sentiment, "neutral")
        impact == IF parse_failed THEN "minimal change"
                  ELSE Get(extracted.value.impact, "minimal change")
        technical_trend == technical_signals.trend
        prediction == combiner_generate_prediction(technical_trend, sentiment)
    IN Return_([direction |-> prediction,
                expected_impact |-> impact,
                technical_trend |-> technical_trend,
                sentiment |-> sentiment,
                reasoning |-> (IF parse_failed THEN << <<"AI analysis parsing failed">> >>
                               ELSE extract_ai_reasoning(extracted.value))
                              \o extract_technical_reasoning(technical_signals)
                              \o << <<"Prediction",
                                      get_prediction_reasoning(technical_trend, sentiment,
                                                               prediction)>> >>,
                signal_alignment |-> assess_signal_alignment(technical_trend, sentiment),
                combined_strength |->
                    calculate_combined_strength(technical_signals, sentiment)])

\* technical signals as calculate_technical_indicators returns them: a trend
\* and a price change in percent that has the trend's sign
PriceChanges == {1, 3, 6}
Signals(trend, price_change_percent, price_vs_sma, volatility_level) ==
    [trend |-> trend, price_change_percent |-> price_change_percent,
     price_vs_sma |-> price_vs_sma, volatility_level |-> volatility_level]
\* from fewer than 5 bars: no average and no volatility
BasicSignals ==
    {Signals("neutral", 0, "", "")}
    \cup {Signals("up", c, "", "") : c \in PriceChanges}
    \cup {Signals("down", 0 - c, "", "") : c \in PriceChanges}
\* from 5 bars on
AdvancedSignals ==
    {Signals("up", 3, "above", "low"), Signals("down", -3, "below", "high"),
     Signals("neutral", 0, "below", "unknown")}
TechnicalSignals == BasicSignals \cup AdvancedSignals

DictValues == {DictValue(s, i) : s \in SentimentLabels \cup {""},
                                 i \in {"", "moderate increase", "moderate decrease"}}

\* dicts with a reasoning text, with more key factors than are kept and with
\* more patterns than are kept
RichValues ==
    {RichDict("positive", "moderate increase", r, kf, pt) :
        r \in {"", "why"},
        kf \in {<<>>, <<"f1">>, <<"f1", "f2", "f3", "f4">>},
        pt \in {<<>>, <<"p1", "p2", "p3">>}}

\* every dict and list with every technical signal, and every string with one
\* signal of each trend
SignalArgs ==
    {[technical_signals |-> t, ai_analysis |-> a] :
        t \in TechnicalSignals,
        a \in {AIAnalysisOf(v) : v \in DictValues \cup RichValues \cup {ListValue}}
              \cup {AIAnalysisNone}}
    \cup {[technical_signals |-> t, ai_analysis |-> AIAnalysisOf(StrValue(s))] :
            t \in {x \in BasicSignals : Abs(x.price_change_percent) <= 1},
            s \in JsonStrings \cup {json_dumps(d) : d \in DictValues}}

CombineSignals ==
    /\ calc.fn = "combine_signals"
    /\ ~calc.done
    /\ Finish(combine_signals(calc.arg.technical_signals, calc.arg.ai_analysis))
    /\ UNCHANGED <<service, tasks>>

InitSignals ==
    /\ HelperInit
    /\ calc \in {Pending("combine_signals", a) : a \in SignalArgs}

NextSignals == CombineSignals

SpecSignals == InitSignals /\ [][NextSignals]_vars

(* -------------------------- TechnicalAnalyzer -------------------------- *)
\* __init__
min_data_points == 2
\* bars needed for the 5-period and for the 10-period average
SmaShort == 5
SmaLong == 10

\* variant: the bars of the short average already count as good data
good_data_threshold_Five == SmaShort

good_data_threshold == 10

\* historical data: the 'close' of each bar, oldest first (0 also stands for
\* a bar without the key), up to MaxBars bars
Closes == {0, 1, 2}
MaxBars == 10
BarLists == UNION {[1..n -> Closes] : n \in 0..MaxBars}

RECURSIVE Sum(_)
Sum(q) == IF q = <<>> THEN 0 ELSE Head(q) + Sum(Tail(q))

\* historical_data[-k:]
Last(q, k) == SubSeq(q, Len(q) - k + 1, Len(q))

\* a quotient num / den, kept exact
Ratio(num, den) == [num |-> num, den |-> den]
NoValue == Ratio(0, 1)

\* variant: the comparison is the other way round
calculate_trend_Swapped(latest_price, previous_price) ==
    IF latest_price < previous_price THEN "up"
    ELSE IF latest_price > previous_price THEN "down" ELSE "neutral"

\* _calculate_trend
calculate_trend(latest_price, previous_price) ==
    IF latest_price > previous_price THEN "up"
    ELSE IF latest_price < previous_price THEN "down" ELSE "neutral"

\* _calculate_percentage_change
calculate_percentage_change(latest_price, previous_price) ==
    IF previous_price = 0 THEN Ratio(0, 1)
    ELSE Ratio((latest_price - previous_price) * 100, previous_price)

\* _classify_volatility for the last five prices with sum s and
\* q = sum of (5 * price - s)^2: the volatility is sqrt(q / 125), the mean
\* s / 5, so volatility / mean * 100 < 2 is 500 * q < s * s, and < 5 is
\* 80 * q < s * s
classify_volatility(q, s) ==
    IF s = 0 THEN "unknown"
    ELSE IF 500 * q < s * s THEN "low"
    ELSE IF 80 * q < s * s THEN "medium" ELSE "high"

BaseKeys == {"trend", "latest_price", "price_change", "price_change_percent",
             "data_quality", "data_points"}

\* _calculate_advanced_indicators: the keys it adds and their values
calculate_advanced_indicators(historical_data) ==
    LET n == Len(historical_data)
        recent == IF n >= SmaShort THEN Last(historical_data, SmaShort) ELSE <<>>
        s == Sum(recent)
        q == Sum([k \in 1..Len(recent) |-> (SmaShort * recent[k] - s) * (SmaShort * recent[k] - s)])
    IN [keys |-> (IF n >= SmaShort
                  THEN {"sma_5", "price_vs_sma", "volatility", "volatility_level"} ELSE {})
                 \cup (IF n >= SmaLong THEN {"sma_10"} ELSE {}),
        sma_5 |-> IF n >= SmaShort THEN Ratio(s, SmaShort) ELSE NoValue,
        price_vs_sma |-> IF n >= SmaShort
                         THEN (IF historical_data[n] * SmaShort > s THEN "above" ELSE "below")
                         ELSE "",
        sma_10 |-> IF n >= SmaLong
                   THEN Ratio(Sum(Last(historical_data, SmaLong)), SmaLong) ELSE NoValue,
        volatility_squared |-> IF n >= SmaShort THEN Ratio(q, 125) ELSE NoValue,
        volatility_level |-> IF n >= SmaShort THEN classify_volatility(q, s) ELSE ""]

NoIndicators ==
    [keys |-> {}, sma_5 |-> NoValue, price_vs_sma |-> "", sma_10 |-> NoValue,
     volatility_squared |-> NoValue, volatility_level |-> ""]

\* _create_insufficient_data_result
create_insufficient_data_result ==
    [trend |-> "neutral", latest_price |-> 0, price_change |-> 0,
     price_change_percent |-> Ratio(0, 1), data_quality |-> "insufficient",
     data_points |-> 0, keys |-> BaseKeys, additional |-> NoIndicators]

\* calculate_technical_indicators
calculate_technical_indicators(historical_data) ==
    LET n == Len(historical_data) IN
    IF n < min_data_points THEN create_insufficient_data_result
    ELSE LET latest_price == historical_data[n]
             previous_price == historical_data[n - 1]
             additional == IF n >= 5 THEN calculate_advanced_indicators(historical_data)
                           ELSE NoIndicators
         IN [trend |-> calculate_trend(latest_price, previous_price),
             latest_price |-> latest_price,
             price_change |-> latest_price - previous_price,
             price_change_percent |->
                 calculate_percentage_change(latest_price, previous_price),
             data_quality |-> IF n >= good_data_threshold THEN "good" ELSE "limited",
             data_points |-> n,
             keys |-> BaseKeys \cup additional.keys,
             additional |-> additional]

CalculateTechnicalIndicators ==
    /\ calc.fn = "calculate_technical_indicators"
    /\ ~calc.done
    /\ Finish(Return_(calculate_technical_indicators(calc.arg)))
    /\ UNCHANGED <<service, tasks>>

InitTechnical ==
    /\ HelperInit
    /\ calc \in {Pending("calculate_technical_indicators", h) : h \in BarLists}

NextTechnical == CalculateTechnicalIndicators

SpecTechnical == InitTechnical /\ [][NextTechnical]_vars

(* ------------------- SocialMediaService: final order ------------------- *)
\* A collected post: platform, id, date (ISO texts of one format compare as
\* their instants do, so a date is the number of its instant) and metrics.
\* Scores are in tenths.
RedditMetrics(score, comments, upvote_ratio) ==
    [score |-> score, comments |-> comments, upvote_ratio |-> upvote_ratio]
TwitterMetrics(like_count, retweet_count, reply_count, quote_count) ==
    [like_count |-> like_count, retweet_count |-> retweet_count,
     reply_count |-> reply_count, quote_count |-> quote_count]
Post(platform, id, date, metrics) ==
    [platform |-> platform, id |-> id, date |-> date, metrics |-> metrics]

\* _calculate_engagement_score, in tenths; upvote_ratio is given in tenths
calculate_engagement_score(post) ==
    IF post.platform = "twitter"
    THEN post.metrics.like_count * 10 + post.metrics.retweet_count * 20
         + post.metrics.reply_count * 15 + post.metrics.quote_count * 18
    ELSE IF post.platform = "reddit"
    THEN post.metrics.score * 10 + post.metrics.comments * 20
         + post.metrics.upvote_ratio * 10
    ELSE 0

\* line 90: key=lambda x: (x.get('date', ''), self._calculate_engagement_score(x))
SortKey(post) == <<post.date, calculate_engagement_score(post)>>

\* comparison of two keys as tuples
KeyLess(k1, k2) == k1[1] < k2[1] \/ (k1[1] = k2[1] /\ k1[2] < k2[2])

\* list.sort(reverse=True) is stable: posts with equal keys keep the order
\* they had in the list. Sorted holds the posts placed so far.
RECURSIVE SortFrom(_, _, _)
SortFrom(posts, i, Sorted) ==
    IF i > Len(posts) THEN Sorted
    ELSE LET p == posts[i]
             \* p goes behind every post whose key is not less than its own
             before == Cardinality({k \in 1..Len(Sorted) :
                                      ~KeyLess(SortKey(Sorted[k]), SortKey(p))})
         IN SortFrom(posts, i + 1,
                     SubSeq(Sorted, 1, before) \o <<p>>
                     \o SubSeq(Sorted, before + 1, Len(Sorted)))

\* lines 90-91: posts.sort(..., reverse=True); final_posts = posts[:limit]
final_posts(posts, limit) == Take(SortFrom(posts, 1, <<>>), limit)

\* the limits tried, and what Reddit delivers: at most limit // 2 posts,
\* each submission once
OrderLimits == {4, 6}
OrderIds == {"a", "b", "c"}
OrderDates == {1, 2}
RedditPosts ==
    {Post("reddit", i, d, RedditMetrics(sc, c, 5)) :
        i \in OrderIds, d \in OrderDates, sc \in {0, 2}, c \in {0, 1}}
RedditDeliveries(limit) ==
    {q \in UNION {[1..n -> RedditPosts] : n \in 0..(limit \div 2)} :
        \A k, l \in 1..Len(q) : k # l => q[k].id # q[l].id}
OrderArgs ==
    UNION {{[reddit_posts |-> q, limit |-> limit] : q \in RedditDeliveries(limit)} :
             limit \in OrderLimits}

\* get_posts_for_ticker on a service whose breakers are closed: the Twitter
\* call has too many arguments and adds nothing, Reddit delivers its posts,
\* and the list is sorted and cut.
SortCollectedPosts ==
    /\ calc.fn = "get_posts_for_ticker"
    /\ ~calc.done
    /\ Finish(Return_(final_posts(calc.arg.reddit_posts, calc.arg.limit)))
    /\ UNCHANGED <<service, tasks>>

InitOrder ==
    /\ HelperInit
    /\ calc \in {Pending("get_posts_for_ticker", a) : a \in OrderArgs}

NextOrder == SortCollectedPosts

SpecOrder == InitOrder /\ [][NextOrder]_vars

(* ------------------------------- retries ------------------------------- *)
\* What a request can meet upstream: a status code, a timeout, or another
\* RequestException. "other_error" is a status raise_for_status() raises
\* for, "other_status" one it does not raise for.
Responses == {"200", "429", "400", "401", "other_error", "other_status",
              "timeout", "connection_error"}
\* what chat.completions.create can do
Completions == {"content", "exception"}

\* TwitterClient.max_retries and OpenAIClient.max_retries
TwitterMaxRetries == 2
OpenAIMaxRetries == 2

\* the answers the upstream has ready for the requests of one call
MaxResponses == 3
Scripts(Answers) == [1..MaxResponses -> Answers]

\* variant: one more turn of the loop
InRange_Inclusive(attempt, n) == attempt <= n

\* for attempt in range(n)
InRange(attempt, n) == attempt < n

\* a call in progress: the loop index, the answers received so far, and the
\* value returned in the end
Progress(attempt, requests, value) ==
    [attempt |-> attempt, requests |-> requests, value |-> value]
Running(fn, responses) == [Pending(fn, responses) EXCEPT !.out = Progress(0, <<>>, "")]

\* One turn of the loop of _make_request (params carries 'query' at both call
\* sites): how the turn ends.
make_request_turn(attempt, response) ==
    CASE response = "200" -> "return_json"
      [] response = "429" -> IF attempt >= 1 THEN "break" ELSE "continue"
      [] response = "400" -> IF attempt = 0 THEN "continue" ELSE "break"
      [] response = "401" -> "break"
      [] response = "other_status" -> "continue"
      [] response = "timeout" -> "continue"
      [] response \in {"other_error", "connection_error"} ->
            IF attempt = TwitterMaxRetries - 1 THEN "raise" ELSE "continue"

\* One turn of the loop of analyze_text
analyze_text_turn(attempt, completion) ==
    IF completion = "content" THEN "return_content"
    ELSE IF attempt < OpenAIMaxRetries - 1 THEN "continue" ELSE "raise"

\* the state of the call after a turn that ended as 'how'; n is the loop bound
AfterTurn(how, received, n, fallthrough) ==
    LET requests == Append(calc.out.requests, received)
        attempt == calc.out.attempt
    IN CASE how \in {"return_json", "return_content"} ->
              [calc EXCEPT !.done = TRUE, !.out = Progress(attempt, requests, how)]
         [] how = "raise" ->
              [calc EXCEPT !.done = TRUE, !.raised = TRUE,
                           !.out = Progress(attempt, requests, "")]
         [] how = "break" ->
              [calc EXCEPT !.done = TRUE, !.out = Progress(attempt, requests, fallthrough)]
         [] how = "continue" ->
              IF InRange(attempt + 1, n)
              THEN [calc EXCEPT !.out = Progress(attempt + 1, requests, "")]
              ELSE [calc EXCEPT !.done = TRUE,
                                !.out = Progress(attempt + 1, requests, fallthrough)]

\* a turn of TwitterClient._make_request: one requests.get; after the loop
\* the method returns {}
MakeRequestTurn ==
    /\ calc.fn = "make_request"
    /\ ~calc.done
    /\ LET response == calc.arg[calc.out.attempt + 1]
       IN calc' = AfterTurn(make_request_turn(calc.out.attempt, response), response,
                            TwitterMaxRetries, "{}")
    /\ UNCHANGED <<service, tasks>>

\* a turn of OpenAIClient.analyze_text: one chat.completions.create
AnalyzeTextTurn ==
    /\ calc.fn = "analyze_text"
    /\ ~calc.done
    /\ LET completion == calc.arg[calc.out.attempt + 1]
       IN calc' = AfterTurn(analyze_text_turn(calc.out.attempt, completion), completion,
                            OpenAIMaxRetries, "None")
    /\ UNCHANGED <<service, tasks>>

InitRetry ==
    /\ HelperInit
    /\ calc \in {Running("make_request", r) : r \in Scripts(Responses)}
                \cup {Running("analyze_text", r) : r \in Scripts(Completions)}

NextRetry == MakeRequestTurn \/ AnalyzeTextTurn

SpecRetry == InitRetry /\ [][NextRetry]_vars

(* ----------------- two calls on one service instance ------------------- *)
\* PredictionService and SocialMediaService hold no lock: calls made on one
\* instance from two threads interleave between their blocking calls.  Each
\* call has its own position and remembers the start it set; the breaker
\* flags, the deadline field and the clock are the shared ones.
\* what belongs to the call that is modelled alone
alone == <<config, pc, opts, data, result, escaped, attempts, aiPosts, aiCalls, lastOp,
           failed, twitter_api, calc>>

\* predict_price_movement, lines 45-48: set_global_start_time(time.time())
TaskStart(t) ==
    /\ tasks[t].pc = "idle"
    /\ global_start_time' = now
    /\ tasks' = [tasks EXCEPT ![t] = [NoTask EXCEPT !.pc = "historical", !.start = now]]
    /\ UNCHANGED <<now, twitter_rate_limited, reddit_blocked, alone>>

\* SOURCE 1: the historical fetch blocks for a while
TaskHistorical(t) ==
    /\ tasks[t].pc = "historical"
    /\ Elapse
    /\ tasks' = [tasks EXCEPT ![t].pc = "twitter"]
    /\ UNCHANGED <<twitter_rate_limited, reddit_blocked, global_start_time, alone>>

\* SOURCE 2: get_twitter_posts_only reads the shared flag and the shared
\* deadline field
TaskTwitter(t) ==
    /\ tasks[t].pc = "twitter"
    /\ \E body \in TwitterBodyResults :
         LET a == get_twitter_posts_only(twitter_rate_limited, global_start_time, now, body) IN
         /\ twitter_rate_limited' = a.flag
         /\ IF a.called THEN Elapse ELSE now' = now
         /\ tasks' = [tasks EXCEPT
                        ![t].pc = "reddit",
                        ![t].checked = ~twitter_rate_limited,
                        ![t].deadline_used = IF twitter_rate_limited THEN None
                                             ELSE global_start_time,
                        ![t].tripped = IF a.flag /\ ~twitter_rate_limited
                                       THEN @ \cup {"twitter"} ELSE @]
    /\ UNCHANGED <<reddit_blocked, global_start_time, alone>>

\* SOURCE 3: get_reddit_posts_only
TaskReddit(t) ==
    /\ tasks[t].pc = "reddit"
    /\ \E r \in RedditResults(reddit_configured) :
         LET a == get_reddit_posts_only(reddit_blocked, r) IN
         /\ reddit_blocked' = a.flag
         /\ IF a.called THEN Elapse ELSE now' = now
         /\ tasks' = [tasks EXCEPT
                        ![t].pc = "done",
                        ![t].tripped = IF a.flag /\ ~reddit_blocked
                                       THEN @ \cup {"reddit"} ELSE @]
    /\ UNCHANGED <<twitter_rate_limited, global_start_time, alone>>

\* the call returns to its caller
TaskReturn(t) ==
    /\ tasks[t].pc = "done"
    /\ tasks' = [tasks EXCEPT ![t] = NoTask]
    /\ UNCHANGED <<now, twitter_rate_limited, reddit_blocked, global_start_time, alone>>

\* reset_platform_status called from another thread; the trips it clears
\* are cleared on purpose
TaskReset ==
    /\ reset_platform_status
    /\ tasks' = [t \in Tasks |-> [tasks[t] EXCEPT !.tripped = {}]]
    /\ UNCHANGED <<now, alone>>

InitConcurrent ==
    /\ HelperInit
    /\ calc = NoCalc

NextConcurrent ==
    \/ \E t \in Tasks : TaskStart(t)
    \/ \E t \in Tasks : TaskHistorical(t)
    \/ \E t \in Tasks : TaskTwitter(t)
    \/ \E t \in Tasks : TaskReddit(t)
    \/ \E t \in Tasks : TaskReturn(t)
    \/ TaskReset

SpecConcurrent == InitConcurrent /\ [][NextConcurrent]_vars

(* ------------------------------ properties ----------------------------- *)
Range(q) == {q[i] : i \in 1..Len(q)}
SocialOps == {"get_twitter_posts_only", "get_reddit_posts_only",
              "get_posts_for_ticker", "get_influencer_posts"}
RateLimitText(msg) == "rate limit" \in msg \/ "429" \in msg
Collected == pc \in {"generate", "done"}

C2_TrippedIsTerminal ==
    [][(\/ twitter_rate_limited /\ ~twitter_rate_limited'
        \/ reddit_blocked /\ ~reddit_blocked') => lastOp'.op = "reset_platform_status"]_vars

C2_Witness ==
    /\ twitter_rate_limited
    /\ pc = "done"
    /\ attempts["twitter"] = "skipped_breaker"
    /\ attempts["reddit"] = "returned"
    /\ global_start_time = now

\* C3: no exception of a source reaches the caller of predict_price_movement,
\* and a finished call has a result.
C3_NeverRaises ==
    /\ ~escaped
    /\ pc = "done" => result # NoResult

C3_Witness ==
    /\ pc = "done"
    /\ attempts["historical"] = "raised"
    /\ attempts["twitter"] = "raised"
    /\ attempts["reddit"] = "raised"
    /\ result.success = FALSE

\* C4: whether a source is attempted in an aggregate call is fixed by the
\* options, its own breaker and (for Twitter) the deadline, whatever the
\* outcome of the attempts made before it in the call.
C4_Isolation ==
    [][/\ (pc = "historical" /\ pc' # pc) => "historical" \in lastOp'.calls
       /\ (pc = "twitter" /\ pc' # pc) =>
            ("twitter" \in lastOp'.calls <=>
               /\ opts.include_posts
               /\ ~twitter_rate_limited
               /\ ~DeadlineElapsed(global_start_time, now))
       /\ (pc = "reddit" /\ pc' # pc) =>
            ("reddit" \in lastOp'.calls <=>
               opts.include_posts /\ opts.include_reddit /\ ~reddit_blocked)]_vars

C4_Witness ==
    /\ pc = "ai"
    /\ attempts["historical"] = "raised"
    /\ attempts["twitter"] = "raised"
    /\ attempts["reddit"] = "returned"
    /\ "reddit" \in lastOp.calls

C8_Original ==
    /\ Collected => (aiCalls = 1 /\ aiPosts = data.twitter + data.reddit)
    /\ ~Collected => aiCalls = 0

\* C8 (amended): an aggregate call that collected a post or a price bar hands
\* the posts it collected (none, when it has only price bars) to
\* analyze_social_media_impact exactly once, after the three fetches; a call
\* that collected neither does not call it.
C8_SentimentLast ==
    /\ Collected /\ (data.twitter + data.reddit > 0 \/ data.historical > 0) =>
          (aiCalls = 1 /\ aiPosts = data.twitter + data.reddit)
    /\ Collected /\ data.twitter + data.reddit = 0 /\ data.historical = 0 => aiCalls = 0
    /\ ~Collected => aiCalls = 0

C8_Witness ==
    /\ pc = "generate"
    /\ attempts["ai_analysis"] = "no_posts"
    /\ data.historical > 0
    /\ aiCalls = 1
    /\ aiPosts = 0

\* C9: when the upstream AI call raises, the sentiment of the call is the
\* neutral fallback, nothing reaches the caller, and the sentiment source is
\* not among the successful sources.
C9_Claim ==
    (Collected /\ attempts["ai_analysis"] = "upstream_raised") =>
        /\ data.ai_analysis = FallbackAnalysis
        /\ ~escaped
        /\ "ai_analysis" \notin Range(data.successful_sources)

\* C10: when no source delivered anything, the result is direction hold,
\* confidence 0.1 and a reasoning that says no data was available.
C10_Claim ==
    (pc = "done" /\ Len(data.successful_sources) = 0) =>
        /\ result.direction = "hold"
        /\ result.confidence = 10
        /\ result.reasoning \in {"No data available", "All data sources failed"}

\* a source delivered data in this call: price bars, posts, or an analysis
\* that the AI actually made
Delivered(s) ==
    IF s = "historical" THEN data.historical > 0
    ELSE IF s = "twitter" THEN data.twitter > 0
    ELSE IF s = "reddit" THEN data.reddit > 0
    ELSE attempts["ai_analysis"] = "analysed"

\* C11: sources_used lists exactly the sources that delivered data in this
\* call; with no posts, at least two price bars and a sentiment source that
\* failed, it is ['historical'] and the confidence is at least 0.1.
C11_Claim ==
    pc = "done" =>
        /\ \A s \in Sources : s \in Range(result.sources_used) <=> Delivered(s)
        /\ (/\ data.twitter + data.reddit = 0
            /\ data.historical >= 2
            /\ attempts["ai_analysis"] \in {"no_posts", "no_client", "upstream_raised",
                                            "raised"})
           => /\ result.sources_used = <<"historical">>
              /\ result.confidence >= 10

\* C13: the confidence of every result of predict_price_movement lies in
\* [0.1, 0.95].
C13_Claim ==
    pc = "done" => result.confidence \in 10..95

ConfidenceDone == calc.fn = "calculate_confidence" /\ calc.done

\* C12: calculate_confidence returns a value in [0.1, 0.95] for every
\* input, the internal-failure path included.
C12_ScoreInRange ==
    ConfidenceDone => ~calc.raised /\ calc.out \in 10..95

\* an aligned strong prediction on full data, whose weighted score exceeds
\* the upper bound and is clamped to it
C12_Witness ==
    /\ ConfidenceDone
    /\ IsMapping(calc.arg.prediction)
    /\ IsMapping(calc.arg.technical_signals)
    /\ calc.arg.prediction.direction = "strong_buy"
    /\ calc.arg.prediction.signal_alignment = "strong_alignment"
    /\ calc.arg.post_count >= 20
    /\ calc.out = 95

\* one of the three dict arguments is None or not a dict
Malformed(a) ==
    \/ ~IsMapping(a.prediction)
    \/ ~IsMapping(a.ai_analysis)
    \/ ~IsMapping(a.technical_signals)

\* C19 as stated: for any malformed prediction, ai_analysis or
\* technical_signals, calculate_confidence returns 0.4.
C19_Original ==
    (ConfidenceDone /\ Malformed(calc.arg)) => ~calc.raised /\ calc.out = 40

\* C19: calculate_confidence never raises; it returns 0.4 exactly when the
\* prediction or the technical_signals is None or not a dict; a malformed
\* ai_analysis alone is absorbed by the AI factor default 0.5 and the score
\* is the one of a well-formed ai_analysis with an unknown confidence label.
C19_FallbackOnFailure ==
    ConfidenceDone =>
        /\ ~calc.raised
        /\ (~IsMapping(calc.arg.prediction) \/ ~IsMapping(calc.arg.technical_signals))
               => calc.out = 40
        /\ (/\ IsMapping(calc.arg.prediction)
            /\ IsMapping(calc.arg.technical_signals)
            /\ ~IsMapping(calc.arg.ai_analysis))
               => \E r \in calculate_confidence(
                              [calc.arg EXCEPT !.ai_analysis =
                                  [kind |-> "mapping", form |-> "dict", confidence |-> "?"]]) :
                      calc.out = r.value

\* a call with a prediction that is None has returned the fallback
C19_Witness ==
    /\ ConfidenceDone
    /\ calc.arg.prediction.kind = "none"
    /\ IsMapping(calc.arg.ai_analysis)
    /\ IsMapping(calc.arg.technical_signals)
    /\ calc.out = 40

DedupeDone == calc.fn = "remove_duplicate_posts" /\ calc.done

\* two posts have the same non-empty id
SameId(p, q) == p.id # "" /\ p.id = q.id

\* two texts are not empty and agree on their first 100 characters
SameHead(t, u) ==
    /\ t # <<>>
    /\ \A k \in 1..(ContentPrefixLen \div BlockChars) :
         /\ (k <= Len(t)) <=> (k <= Len(u))
         /\ k <= Len(t) => t[k] = u[k]

\* C14: the output of _remove_duplicate_posts has no two posts with the
\* same non-empty id and no two posts whose texts have the same non-empty
\* first-100-character prefix.
C14_NoDuplicates ==
    DedupeDone =>
        \A i, j \in 1..Len(calc.out.unique_posts) :
            i < j => /\ ~SameId(calc.out.unique_posts[i], calc.out.unique_posts[j])
                     /\ ~SameHead(calc.out.unique_posts[i].text, calc.out.unique_posts[j].text)

\* two posts without an id whose texts differ only after the 100th
\* character were given, and one of them was returned
C14_Witness ==
    /\ DedupeDone
    /\ \E i, j \in 1..Len(calc.arg) :
         /\ i < j
         /\ calc.arg[i].id = "" /\ calc.arg[j].id = ""
         /\ calc.arg[i].text # calc.arg[j].text
         /\ SameHead(calc.arg[i].text, calc.arg[j].text)
    /\ Len(calc.out.unique_posts) = 1

\* C15: the output is a subsequence of the input; a post is dropped if and
\* only if an earlier kept post has the same non-empty id or the same
\* non-empty 100-character prefix; posts with neither id nor text are all
\* kept.
C15_FirstOccurrences ==
    DedupeDone =>
        LET P == calc.arg
            kept == calc.out.kept
            K == Range(kept)
        IN /\ Len(calc.out.unique_posts) = Len(kept)
           /\ \A k \in 1..Len(kept) :
                /\ kept[k] \in 1..Len(P)
                /\ calc.out.unique_posts[k] = P[kept[k]]
                /\ k > 1 => kept[k - 1] < kept[k]
           /\ \A j \in 1..Len(P) :
                j \notin K <=> \E i \in K : /\ i < j
                                            /\ \/ SameId(P[i], P[j])
                                               \/ SameHead(P[i].text, P[j].text)
           /\ \A j \in 1..Len(P) : (P[j].id = "" /\ P[j].text = <<>>) => j \in K

\* the second post was dropped for its text, and the third, which repeats
\* the id of the dropped post, was kept
C15_Witness ==
    /\ DedupeDone
    /\ Len(calc.arg) = 3
    /\ calc.out.kept = <<1, 3>>
    /\ calc.arg[2].id # ""
    /\ calc.arg[2].id = calc.arg[3].id
    /\ SameHead(calc.arg[1].text, calc.arg[2].text)

SignalsDone == calc.fn = "combine_signals" /\ calc.done

\* the call was given a dict as ai_analysis["ai_analysis"]
GivenDict == IsMapping(calc.arg.ai_analysis) /\ calc.arg.ai_analysis.payload.form = "dict"

\* C16: the exact pairs are resolved by the table, and the returned
\* sentiment is the sentiment label of the input.
C16_Table ==
    (SignalsDone /\ GivenDict /\ calc.arg.ai_analysis.payload.sentiment # "") =>
        LET t == calc.arg.technical_signals.trend
            sn == calc.arg.ai_analysis.payload.sentiment
            d == calc.out.direction
        IN /\ ~calc.raised
           /\ (t = "up" /\ sn = "positive") => d = "buy"
           /\ (t = "up" /\ sn = "very positive") => d = "strong_buy"
           /\ (t = "down" /\ sn = "negative") => d = "sell"
           /\ (t = "down" /\ sn = "very negative") => d = "strong_sell"
           /\ (t = "neutral" /\ sn = "neutral") => d = "hold"
           /\ calc.out.sentiment = sn

\* an upward trend with a very positive sentiment was combined
C16_Witness ==
    /\ SignalsDone
    /\ GivenDict
    /\ calc.arg.technical_signals.trend = "up"
    /\ calc.arg.ai_analysis.payload.sentiment = "very positive"
    /\ calc.out.direction = "strong_buy"
    /\ calc.out.sentiment = "very positive"

\* swapping the bullish and the bearish side
MirrorTrend(t) == IF t = "up" THEN "down" ELSE IF t = "down" THEN "up" ELSE t
MirrorSentiment(sn) ==
    IF sn = "positive" THEN "negative" ELSE IF sn = "negative" THEN "positive"
    ELSE IF sn = "very positive" THEN "very negative"
    ELSE IF sn = "very negative" THEN "very positive" ELSE sn
MirrorDirection(d) ==
    IF d = "buy" THEN "sell" ELSE IF d = "sell" THEN "buy"
    ELSE IF d = "strong_buy" THEN "strong_sell"
    ELSE IF d = "strong_sell" THEN "strong_buy" ELSE d

\* C17: for every trend and every sentiment of the 5-point scale, the
\* direction for the mirrored trend and sentiment is the mirrored direction.
C17_Claim ==
    (SignalsDone /\ GivenDict /\ calc.arg.ai_analysis.payload.sentiment \in SentimentScale) =>
        combiner_generate_prediction(MirrorTrend(calc.arg.technical_signals.trend),
                                     MirrorSentiment(calc.arg.ai_analysis.payload.sentiment))
            = MirrorDirection(calc.out.direction)

\* the call was given a str as ai_analysis["ai_analysis"]
GivenStr == IsMapping(calc.arg.ai_analysis) /\ calc.arg.ai_analysis.payload.form = "str"

TechnicalDone == calc.fn = "calculate_technical_indicators" /\ calc.done

\* C20: the bar count n alone fixes what is reported: n < 2 gives the
\* sentinel (trend neutral, data_quality insufficient, zeroed fields),
\* 2 <= n < 10 gives 'limited', n >= 10 gives 'good'; sma_5 is present iff
\* n >= 5 and sma_10 iff n >= 10.
C20_ByBarCount ==
    TechnicalDone =>
        LET n == Len(calc.arg)
            r == calc.out
        IN /\ ~calc.raised
           /\ n < 2 => /\ r.trend = "neutral"
                       /\ r.data_quality = "insufficient"
                       /\ r.latest_price = 0
                       /\ r.price_change = 0
                       /\ r.price_change_percent.num = 0
                       /\ r.data_points = 0
           /\ (2 <= n /\ n < 10) => r.data_quality = "limited"
           /\ n >= 10 => r.data_quality = "good"
           /\ "sma_5" \in r.keys <=> n >= 5
           /\ "sma_10" \in r.keys <=> n >= 10

\* ten bars were analysed: good quality, both averages reported
C20_Witness ==
    /\ TechnicalDone
    /\ Len(calc.arg) = 10
    /\ calc.out.data_quality = "good"
    /\ {"sma_5", "sma_10"} \subseteq calc.out.keys
    /\ calc.out.trend = "up"

\* C21: with at least 2 bars the basic fields depend only on the two most
\* recent closes: latest_price, price_change, trend, and
\* price_change_percent = 100 * (c_last - c_prev) / c_prev, or 0 when
\* c_prev = 0.
C21_LastTwoCloses ==
    (TechnicalDone /\ Len(calc.arg) >= 2) =>
        LET c_last == calc.arg[Len(calc.arg)]
            c_prev == calc.arg[Len(calc.arg) - 1]
            r == calc.out
        IN /\ ~calc.raised
           /\ r.latest_price = c_last
           /\ r.price_change = c_last - c_prev
           /\ r.trend = (IF c_last > c_prev THEN "up"
                         ELSE IF c_last < c_prev THEN "down" ELSE "neutral")
           /\ r.price_change_percent.den # 0
           /\ IF c_prev = 0 THEN r.price_change_percent.num = 0
              ELSE r.price_change_percent.num * c_prev
                       = 100 * (c_last - c_prev) * r.price_change_percent.den

\* the last close doubled the previous one, after earlier bars
C21_Witness ==
    /\ TechnicalDone
    /\ Len(calc.arg) >= 3
    /\ calc.arg[Len(calc.arg)] = 2
    /\ calc.arg[Len(calc.arg) - 1] = 1
    /\ calc.out.trend = "up"
    /\ calc.out.price_change = 1
    /\ calc.out.price_change_percent = Ratio(100, 1)

\* C26: the AI-confidence factor is 0.3, 0.6, 0.9 for low, medium, high and
\* 0.5 whenever the confidence value is missing, unparsable or unrecognised.
C26_Claim ==
    (ConfidenceDone /\ IsMapping(calc.arg.prediction)
                    /\ IsMapping(calc.arg.technical_signals)) =>
        LET ai == calc.arg.ai_analysis
            known == IsMapping(ai) /\ ai.form # "bad_json"
                     /\ ai.confidence \in {"low", "medium", "high"}
        IN calculate_ai_confidence_factor(ai)
               = (IF ~known THEN 5
                  ELSE IF ai.confidence = "low" THEN 3
                  ELSE IF ai.confidence = "medium" THEN 6 ELSE 9)

\* the combiner read a sentiment of the 5-point scale
OnScale == SignalsDone /\ ~calc.raised /\ calc.out.sentiment \in SentimentScale

C29_StrongIsAligned ==
    OnScale =>
        /\ calc.out.direction \in {"strong_buy", "strong_sell"}
               => /\ calc.out.signal_alignment = "good_alignment"
                  /\ get_prediction_multiplier(calc.out) = 12
        /\ calc.out.direction = "hold"
               <=> (calc.out.technical_trend = "neutral" /\ calc.out.sentiment = "neutral")

\* a downward trend met a very negative sentiment: strong_sell
C29_Witness ==
    /\ OnScale
    /\ calc.out.technical_trend = "down"
    /\ calc.out.sentiment = "very negative"
    /\ calc.out.direction = "strong_sell"
    /\ get_prediction_multiplier(calc.out) = 12

\* the leading words of the entries of a reasoning list
Leads(reasoning) == [k \in 1..Len(reasoning) |-> reasoning[k][1]]

\* the entries of q are all in order and appear in the order they have there
InOrderOf(q, order) ==
    /\ \A k \in 1..Len(q) : \E m \in 1..Len(order) : order[m] = q[k]
    /\ \A k, l \in 1..Len(q) :
         k < l => \E m, n \in 1..Len(order) : m < n /\ order[m] = q[k] /\ order[n] = q[l]

\* what the payload and the signals must put into the list, with the limits
ReasoningContent ==
    LET v == calc.arg.ai_analysis.payload
        ts == calc.arg.technical_signals
        R == Range(calc.out.reasoning)
    IN /\ v.reasoning # "" <=> <<"AI", v.reasoning>> \in R
       /\ v.key_factors # <<>> <=> \E e \in R : e[1] = "Key factors"
       /\ \A e \in R : e[1] = "Key factors" =>
              /\ Len(e) <= 1 + 3
              /\ Tail(e) = SubSeq(v.key_factors, 1, Len(e) - 1)
              /\ Len(e) - 1 = (IF Len(v.key_factors) < 3 THEN Len(v.key_factors) ELSE 3)
       /\ v.patterns # <<>> <=> \E e \in R : e[1] = "Patterns"
       /\ \A e \in R : e[1] = "Patterns" =>
              /\ Len(e) <= 1 + 2
              /\ Tail(e) = SubSeq(v.patterns, 1, Len(e) - 1)
              /\ Len(e) - 1 = (IF Len(v.patterns) < 2 THEN Len(v.patterns) ELSE 2)
       /\ ts.trend # "neutral" <=> <<"Technical", ts.trend>> \in R
       /\ ts.price_vs_sma # "" <=> <<"Price is", ts.price_vs_sma>> \in R
       /\ ts.volatility_level # "" <=> <<"Market volatility", ts.volatility_level>> \in R
       /\ Len(calc.out.reasoning) >= 1
       /\ calc.out.reasoning[Len(calc.out.reasoning)][1] = "Prediction"

\* C27 as stated: key factors (at most 3), patterns (at most 2), the AI's
\* reasoning, the technical statement, the SMA statement, the volatility
\* statement, and last the direction justification.
C27_Original ==
    (SignalsDone /\ GivenDict) =>
        /\ ReasoningContent
        /\ InOrderOf(Leads(calc.out.reasoning),
                     <<"Key factors", "Patterns", "AI", "Technical", "Price is",
                       "Market volatility", "Prediction">>)

\* C27: the entries come in this order: the AI's own reasoning, the key
\* factors (at most 3), the patterns (at most 2), the technical statement,
\* the SMA statement if available, the volatility statement if available,
\* and last the direction justification.
C27_ReasoningOrder ==
    (SignalsDone /\ GivenDict) =>
        /\ ReasoningContent
        /\ InOrderOf(Leads(calc.out.reasoning),
                     <<"AI", "Key factors", "Patterns", "Technical", "Price is",
                       "Market volatility", "Prediction">>)

\* a payload with a reasoning, four key factors and three patterns was
\* combined with signals that carry an average and a volatility
C27_Witness ==
    /\ SignalsDone
    /\ GivenDict
    /\ Len(calc.arg.ai_analysis.payload.key_factors) = 4
    /\ Len(calc.arg.ai_analysis.payload.patterns) = 3
    /\ calc.out.reasoning =
         << <<"AI", "why">>, <<"Key factors", "f1", "f2", "f3">>, <<"Patterns", "p1", "p2">>,
            <<"Technical", "up">>, <<"Price is", "above">>, <<"Market volatility", "low">>,
            <<"Prediction", "signals support">> >>

OrderDone == calc.fn = "get_posts_for_ticker" /\ calc.done

\* the lists with the same posts in another order
Reorderings(q) ==
    {p \in [1..Len(q) -> Range(q)] : \A x \in Range(q) : \E k \in 1..Len(q) : p[k] = x}

\* C22: the returned posts are in one deterministic total order (descending
\* date, then descending engagement score, then post id): the same posts
\* delivered in another order come back in the same order.
C22_Claim ==
    OrderDone =>
        /\ \A k \in 1..(Len(calc.out) - 1) :
             ~KeyLess(SortKey(calc.out[k]), SortKey(calc.out[k + 1]))
        /\ \A q \in Reorderings(calc.arg.reddit_posts) :
             final_posts(q, calc.arg.limit) = calc.out

MakeRequestCall == calc.fn = "make_request"
AnalyzeTextCall == calc.fn = "analyze_text"

\* C24: after _make_request has received a 429 it issues no further request,
\* and the call ends with the failure that lets the enclosing service call
\* trip the Twitter breaker.
C24_Claim ==
    MakeRequestCall =>
        /\ \A k \in 1..(Len(calc.out.requests) - 1) : calc.out.requests[k] # "429"
        /\ (calc.done /\ "429" \in Range(calc.out.requests)) => calc.raised

\* C25: _make_request ends after at most 2 HTTP requests and analyze_text
\* after at most 2 attempts, whatever the upstream answers; analyze_text
\* returns the first successful response and raises only after its last
\* attempt has failed.
C25_BoundedRetries ==
    (MakeRequestCall \/ AnalyzeTextCall) =>
        /\ Len(calc.out.requests) <= 2
        /\ ~calc.done => Len(calc.out.requests) < 2
        /\ (calc.done /\ calc.raised) => Len(calc.out.requests) = 2
        /\ (AnalyzeTextCall /\ calc.done) =>
             LET n == Len(calc.out.requests) IN
             /\ \A k \in 1..(n - 1) : calc.out.requests[k] = "exception"
             /\ calc.raised <=> calc.out.requests[n] = "exception"
             /\ ~calc.raised => calc.out.value = "return_content"
             /\ calc.out.requests = SubSeq(calc.arg, 1, n)

\* _make_request raised after a timeout and a connection error, and
\* analyze_text is not the call here
C25_Witness ==
    /\ MakeRequestCall
    /\ calc.done
    /\ calc.raised
    /\ calc.out.requests = <<"timeout", "connection_error">>

\* the Twitter turn of the finished call got past the breaker and the
\* deadline and reached the client
TwitterAttempted == pc = "done" /\ ~escaped /\ attempts["twitter"] \in {"returned", "raised"}

\* C30: when the breaker is closed, the deadline has not elapsed, the client
\* is configured and the API has posts for the ticker, get_twitter_posts_only
\* returns them and 'twitter' is among the sources_used of the call.
C30_Claim ==
    (TwitterAttempted /\ twitter_configured /\ twitter_api > 0) =>
        /\ data.twitter = twitter_api
        /\ "twitter" \in Range(result.sources_used)

\* C23: under any interleaving of two calls and of reset_platform_status
\* on one service instance, a call's deadline check uses the deadline the
\* call set at its own start, the deadline of a call that has not made its
\* check yet is neither moved nor removed, and no trip a call wrote is lost.
C23_Claim ==
    \A t \in Tasks :
        /\ tasks[t].checked => tasks[t].deadline_used = tasks[t].start
        /\ tasks[t].pc \in {"historical", "twitter"} => global_start_time = tasks[t].start
        /\ "twitter" \in tasks[t].tripped => twitter_rate_limited
        /\ "reddit" \in tasks[t].tripped => reddit_blocked


====
